---- MODULE Spec2Model ----
(***************************************************************************)
(* Model of the email ingestion pipeline of email_security_copilot:        *)
(*   data/textPreprocessor.py  TextPreprocessor            (Text Normalizer)*)
(*   data/data.py              EmailDataset       (Parser, Corpus Loader)   *)
(*   data/build_spamassassin_dataset.py  extract_text_from_email            *)
(*   features/features.py      EmailFeatureClass           (Feature Engine) *)
(*   data/build_processed.py   main                     (Dataset Assembler) *)
(*                                                                         *)
(* A Python str is modelled as a sequence of Unicode code points, e.g.     *)
(* "&#38;" is <<38, 35, 51, 56, 59>>.  Code points used below:             *)
(*   9 \t   10 \n   12 \f   32 space   34 "   35 #   38 &   44 ,   47 /    *)
(*   48..57 0..9   59 ;   60 <   62 >   64 @   65..90 A..Z   97..122 a..z  *)
(***************************************************************************)
EXTENDS Integers, Sequences, FiniteSets, TLC

VARIABLES
    \* ---- Text Normalizer (TextPreprocessor) ----
    cfg,        \* cfg.preprocessing: the option record
    env,        \* what is installed: "ok", "no_model" or "no_spacy"
    nlp,        \* self._nlp: "None" or "loaded"
    nIn,        \* the string first handed to the normalizer
    nHist,      \* the results of the successive calls, each fed to the next
    nErr,       \* the exception a call raised, "none" if it returned
    \* ---- Message Parser ----
    msg,        \* the parsed message
    resA,       \* the result of EmailDataset._get_body(msg)
    resB,       \* the result of extract_text_from_email on the same message
    \* ---- Corpus Loader (EmailDataset.load) ----
    dir,        \* the entries os.scandir yields, in order
    label,      \* self.label
    pos,        \* index of the entry the loop is at
    rows,       \* rows
    skipped,    \* skipped
    lpc,        \* "scan", "done" (returned) or "raised" (left by an exception)
    \* ---- Feature Engine and Dataset Assembler (build_processed.main) ----
    cols0,      \* the columns of the table load_data returned
    cols,       \* the columns of the table main holds now
    fpc,        \* "start", "featured", "written" or "failed"
    ferr,       \* the exception that ended the run: [kind, names]
    out0,       \* the output file before the run: "absent" or "old"
    out         \* the output file now: "absent", "old" or "new"

nvars == <<cfg, env, nlp, nIn, nHist, nErr>>

bvars == <<msg, resA, resB>>

lvars == <<dir, label, pos, rows, skipped, lpc>>

fvars == <<cols0, cols, fpc, ferr, out0, out>>

vars == <<cfg, env, nlp, nIn, nHist, nErr, msg, resA, resB,
          dir, label, pos, rows, skipped, lpc,
          cols0, cols, fpc, ferr, out0, out>>

----------------------------------------------------------------------------
(* Strings *)

\* str.isspace(), which is also the class \s of a str pattern
IsSpace(c) ==
    \/ c \in 9..13
    \/ c \in 28..32
    \/ c \in {133, 160, 5760, 8232, 8233, 8239, 8287, 12288}
    \/ c \in 8192..8202

Drop(s, n) == SubSeq(s, n + 1, Len(s))

RECURSIVE LStrip(_)
LStrip(s) ==
    IF s # <<>> /\ IsSpace(s[1]) THEN LStrip(Tail(s)) ELSE s

RECURSIVE RStrip(_)
RStrip(s) ==
    IF s # <<>> /\ IsSpace(s[Len(s)]) THEN RStrip(SubSeq(s, 1, Len(s) - 1)) ELSE s

\* str.strip()
Strip(s) == RStrip(LStrip(s))

----------------------------------------------------------------------------
(* Text Normalizer: TextPreprocessor *)

IsDigit(c) == c \in 48..57

\* [^\t\n\f <&#;] : a character of an entity name
IsNameChar(c) == c \notin {9, 10, 12, 32, 60, 38, 35, 59}

RECURSIVE DigitSpan(_)
DigitSpan(s) ==
    IF s # <<>> /\ IsDigit(s[1]) THEN 1 + DigitSpan(Tail(s)) ELSE 0

RECURSIVE NameSpan(_)
NameSpan(s) ==
    IF s # <<>> /\ IsNameChar(s[1]) THEN 1 + NameSpan(Tail(s)) ELSE 0

RECURSIVE SpaceSpan(_)
SpaceSpan(s) ==
    IF s # <<>> /\ IsSpace(s[1]) THEN 1 + SpaceSpan(Tail(s)) ELSE 0

\* 1 when s[n] is ";" (the optional ";?" of a character reference)
SemiAt(s, n) == IF n <= Len(s) /\ s[n] = 59 THEN 1 ELSE 0

Min(a, b) == IF a < b THEN a ELSE b

\* html._charref matched right after an "&": the length of group 1, 0 when
\* no alternative matches.  The hexadecimal alternative #[xX][0-9a-fA-F]+;?
\* needs an "x" after the "#", which no modelled input has.
CharrefLen(t) ==
    IF t = <<>> THEN 0
    ELSE IF t[1] = 35 THEN
        LET d == DigitSpan(Tail(t))
        IN  IF d = 0 THEN 0 ELSE 1 + d + SemiAt(t, d + 2)
    ELSE
        LET n == Min(NameSpan(t), 32)
        IN  IF n = 0 THEN 0 ELSE n + SemiAt(t, n + 1)

\* int(digits), saturated just above the largest code point 0x10FFFF
RECURSIVE DecVal(_, _)
DecVal(ds, acc) ==
    IF ds = <<>> THEN acc
    ELSE DecVal(Tail(ds), Min(10 * acc + (ds[1] - 48), 1114112))

\* html._invalid_charrefs
InvalidCharrefs ==
    [n \in {0, 13} \cup (128..159) |->
        CASE n = 0 -> 65533
          [] n = 13 -> 13
          [] n = 128 -> 8364  [] n = 129 -> 129   [] n = 130 -> 8218
          [] n = 131 -> 402   [] n = 132 -> 8222  [] n = 133 -> 8230
          [] n = 134 -> 8224  [] n = 135 -> 8225  [] n = 136 -> 710
          [] n = 137 -> 8240  [] n = 138 -> 352   [] n = 139 -> 8249
          [] n = 140 -> 338   [] n = 141 -> 141   [] n = 142 -> 381
          [] n = 143 -> 143   [] n = 144 -> 144   [] n = 145 -> 8216
          [] n = 146 -> 8217  [] n = 147 -> 8220  [] n = 148 -> 8221
          [] n = 149 -> 8226  [] n = 150 -> 8211  [] n = 151 -> 8212
          [] n = 152 -> 732   [] n = 153 -> 8482  [] n = 154 -> 353
          [] n = 155 -> 8250  [] n = 156 -> 339   [] n = 157 -> 157
          [] n = 158 -> 382   [] n = 159 -> 376]

\* html._invalid_codepoints
IsInvalidCodepoint(n) ==
    \/ n \in 1..8
    \/ n \in 14..31
    \/ n \in 127..159
    \/ n \in 64976..65007
    \/ n = 11
    \/ n % 65536 \in {65534, 65535}

\* html._replace_charref on group 1.  No HTML5 entity name is spelled with
\* the characters of the modelled inputs, so a named reference is returned
\* as "&" + name.
ReplaceCharref(g) ==
    IF g[1] = 35 THEN
        LET ds  == SubSeq(g, 2, Len(g) - SemiAt(g, Len(g)))
            num == DecVal(ds, 0)
        IN  IF num \in DOMAIN InvalidCharrefs THEN <<InvalidCharrefs[num]>>
            ELSE IF num \in 55296..57343 \/ num > 1114111 THEN <<65533>>
            ELSE IF IsInvalidCodepoint(num) THEN <<>>
            ELSE <<num>>
    ELSE <<38>> \o g

\* html.unescape(s): one left-to-right pass, replacements are not rescanned
RECURSIVE Unescape(_)
Unescape(s) ==
    IF s = <<>> THEN <<>>
    ELSE IF s[1] # 38 THEN <<s[1]>> \o Unescape(Tail(s))
    ELSE
        LET m == CharrefLen(Tail(s))
        IN  IF m = 0 THEN <<38>> \o Unescape(Tail(s))
            ELSE ReplaceCharref(SubSeq(s, 2, m + 1)) \o Unescape(Drop(s, m + 1))

\* number of leading characters of s other than ">"
RECURSIVE NotGtSpan(_)
NotGtSpan(s) ==
    IF s # <<>> /\ s[1] # 62 THEN 1 + NotGtSpan(Tail(s)) ELSE 0

\* re.sub(HTML_TAG_RE, " ", s) with HTML_TAG_RE = <[^>]+>
RECURSIVE RemoveTags(_)
RemoveTags(s) ==
    IF s = <<>> THEN <<>>
    ELSE
        LET n == NotGtSpan(Tail(s))
        IN  IF s[1] = 60 /\ n >= 1 /\ n + 2 <= Len(s)
            THEN <<32>> \o RemoveTags(Drop(s, n + 2))
            ELSE <<s[1]>> \o RemoveTags(Tail(s))

\* re.sub(DIGIT_RE, " ", s) with DIGIT_RE = \d+
RECURSIVE RemoveDigits(_)
RemoveDigits(s) ==
    IF s = <<>> THEN <<>>
    ELSE IF IsDigit(s[1]) THEN <<32>> \o RemoveDigits(Drop(s, DigitSpan(s)))
    ELSE <<s[1]>> \o RemoveDigits(Tail(s))

\* re.sub(r"\s+", " ", s)
RECURSIVE SubSpaces(_)
SubSpaces(s) ==
    IF s = <<>> THEN <<>>
    ELSE IF IsSpace(s[1]) THEN <<32>> \o SubSpaces(Drop(s, SpaceSpan(s)))
    ELSE <<s[1]>> \o SubSpaces(Tail(s))

\* mutant: the trailing .strip() is forgotten
CollapseWhitespaceNoStrip(s) == SubSpaces(s)

\* re.sub(r"\s+", " ", text).strip()
CollapseWhitespace(s) == Strip(SubSpaces(s))

\* " ".join(tok.lemma_ for tok in doc): the external language model, stood
\* in for by the whitespace-separated tokens of the text
Lemmas(s) == Strip(SubSpaces(s))

\* TextPreprocessor._lemmatize: the text returned, self._nlp afterwards and
\* the exception that escapes ("none" when it returns)
Lemmatize(text, nlp0, env0) ==
    IF nlp0 = "None" /\ env0 = "no_spacy"
    THEN [text |-> text, nlp |-> "None", err |-> "ImportError"]
    ELSE IF nlp0 = "None" /\ env0 = "no_model"
    THEN [text |-> text, nlp |-> "None", err |-> "none"]
    ELSE [text |-> Lemmas(text), nlp |-> "loaded", err |-> "none"]

\* the steps of TextPreprocessor.__call__ that precede lemmatization.  The
\* options remove_urls, remove_emails, remove_user_handles, remove_hashtags,
\* lowercase and remove_punctuation are off in every modelled configuration.
Clean(c, text) ==
    LET t1 == Unescape(text)
        t2 == IF c.remove_html THEN RemoveTags(t1) ELSE t1
        t3 == IF c.remove_digits THEN RemoveDigits(t2) ELSE t2
    IN  IF c.collapse_whitespace THEN CollapseWhitespace(t3) ELSE t3

\* TextPreprocessor.__call__
Call(c, text, nlp0, env0) ==
    IF ~c.enable THEN [text |-> text, nlp |-> nlp0, err |-> "none"]
    ELSE IF c.lemmatize THEN Lemmatize(Clean(c, text), nlp0, env0)
    ELSE [text |-> Clean(c, text), nlp |-> nlp0, err |-> "none"]

\* ---- inputs of the normalizer ----
MaxChunks == 3
MaxCalls == 2

\* "&", "#38", "#3", ";", " ", "\n", "a", "<a>"
Chunks ==
    { <<38>>, <<35, 51, 56>>, <<35, 51>>, <<59>>, <<32>>, <<10>>, <<97>>,
      <<60, 97, 62>> }

RECURSIVE Texts(_)
Texts(n) ==
    IF n = 0 THEN { <<>> }
    ELSE Texts(n - 1) \cup { t \o c : t \in Texts(n - 1), c \in Chunks }

Off == [enable |-> FALSE, remove_html |-> FALSE, remove_digits |-> FALSE,
        collapse_whitespace |-> FALSE, lemmatize |-> FALSE]

\* PreprocessingCfg values: disabled, enabled with nothing else, collapse
\* alone, the defaults (remove_html + collapse), digits, and lemmatize
Cfgs ==
    { Off,
      [Off EXCEPT !.enable = TRUE],
      [Off EXCEPT !.enable = TRUE, !.collapse_whitespace = TRUE],
      [Off EXCEPT !.enable = TRUE, !.collapse_whitespace = TRUE,
                  !.remove_html = TRUE],
      [Off EXCEPT !.enable = TRUE, !.collapse_whitespace = TRUE,
                  !.remove_digits = TRUE],
      [Off EXCEPT !.enable = TRUE, !.collapse_whitespace = TRUE,
                  !.lemmatize = TRUE] }

Envs == {"ok", "no_model", "no_spacy"}

NormInit ==
    /\ cfg \in Cfgs
    /\ env \in (IF cfg.lemmatize THEN Envs ELSE {"ok"})
    /\ nlp = "None"
    /\ nIn \in Texts(MaxChunks)
    /\ nHist = <<>>
    /\ nErr = "none"

\* one call of the normalizer, on the input or on its own previous result
NormCall ==
    /\ nErr = "none"
    /\ Len(nHist) < MaxCalls
    /\ LET text == IF nHist = <<>> THEN nIn ELSE nHist[Len(nHist)]
           r    == Call(cfg, text, nlp, env)
       IN  /\ nlp' = r.nlp
           /\ nErr' = r.err
           /\ nHist' = IF r.err = "none" THEN Append(nHist, r.text) ELSE nHist
    /\ UNCHANGED <<cfg, env, nIn, bvars, lvars, fvars>>

----------------------------------------------------------------------------
(* Message Parser: EmailDataset._get_body and extract_text_from_email *)

\* A parsed message is [multipart, parts]: parts is msg.walk() without the
\* multipart containers (their content type is neither text/plain nor
\* text/*), or the message itself when it is not multipart.  A part is
\* [ctype, disp, charset, payload]: payload is get_payload(decode=True), a
\* sequence of bytes; charset is "none" when the part declares none and
\* "bogus" when it declares one Python has no codec for.

\* bytes.decode("latin-1")
DecodeLatin1(b) == b

\* bytes.decode("ascii", "replace")
DecodeAscii(b) == [j \in 1..Len(b) |-> IF b[j] < 128 THEN b[j] ELSE 65533]

\* bytes.decode("utf-8", "replace") for ASCII, two-byte sequences and stray
\* bytes (no modelled payload holds a three- or four-byte sequence)
RECURSIVE DecodeUtf8(_)
DecodeUtf8(b) ==
    IF b = <<>> THEN <<>>
    ELSE IF b[1] < 128 THEN <<b[1]>> \o DecodeUtf8(Tail(b))
    ELSE IF b[1] \in 194..223 /\ Len(b) >= 2 /\ b[2] \in 128..191
    THEN <<(b[1] - 192) * 64 + (b[2] - 128)>> \o DecodeUtf8(Drop(b, 2))
    ELSE <<65533>> \o DecodeUtf8(Tail(b))

\* EmailDataset._txt: the declared charset, "utf-8" when none is declared,
\* latin-1 when decoding raises (LookupError on an unknown charset)
Txt(part) ==
    CASE part.charset = "none"    -> DecodeUtf8(part.payload)
      [] part.charset = "latin-1" -> DecodeLatin1(part.payload)
      [] OTHER                    -> DecodeLatin1(part.payload)

\* part.get_content() raises (LookupError) on an unknown charset
GetContentRaises(part) == part.charset = "bogus"

\* part.get_content() of a text part: charset parameter, default ASCII,
\* errors="replace"
GetContent(part) ==
    IF part.charset = "latin-1" THEN DecodeLatin1(part.payload)
    ELSE DecodeAscii(part.payload)

Lower(c) == IF c \in 65..90 THEN c + 32 ELSE c

\* s starts with the lower-case literal lit, ignoring case
StartsWithCI(s, lit) ==
    /\ Len(s) >= Len(lit)
    /\ \A j \in 1..Len(lit) : Lower(s[j]) = lit[j]

\* first index of character c in s, 0 when absent
IndexOf(s, c) ==
    IF \E j \in 1..Len(s) : s[j] = c
    THEN CHOOSE j \in 1..Len(s) : s[j] = c /\ \A k \in 1..(j - 1) : s[k] # c
    ELSE 0

\* first index at which lit occurs in s ignoring case, 0 when absent
FindCI(s, lit) ==
    LET Hit(j) == StartsWithCI(Drop(s, j - 1), lit)
    IN  IF \E j \in 1..Len(s) : Hit(j)
        THEN CHOOSE j \in 1..Len(s) : Hit(j) /\ \A k \in 1..(j - 1) : ~Hit(k)
        ELSE 0

\* "script", "style"
TagNames == << <<115, 99, 114, 105, 112, 116>>, <<115, 116, 121, 108, 101>> >>

\* length of the match of (?is)<name.*?>.*?</name> at the start of s, else 0
BlockLen(s, name) ==
    IF ~StartsWithCI(s, <<60>> \o name) THEN 0
    ELSE
        LET open == Len(name) + 1
            gt   == IndexOf(Drop(s, open), 62)
            cl   == FindCI(Drop(s, open + gt), <<60, 47>> \o name \o <<62>>)
        IN  IF gt = 0 \/ cl = 0 THEN 0
            ELSE open + gt + (cl - 1) + Len(name) + 3

\* re.sub(r"(?is)<(script|style).*?>.*?</\1>", "", s)
RECURSIVE RemoveBlocks(_)
RemoveBlocks(s) ==
    IF s = <<>> THEN <<>>
    ELSE
        LET m1 == BlockLen(s, TagNames[1])
            m  == IF m1 > 0 THEN m1 ELSE BlockLen(s, TagNames[2])
        IN  IF m > 0 THEN RemoveBlocks(Drop(s, m))
            ELSE <<s[1]>> \o RemoveBlocks(Tail(s))

\* length of the match of (?is)<br\s*/?>|</p> at the start of s, else 0
BreakLen(s) ==
    IF StartsWithCI(s, <<60, 98, 114>>) THEN
        LET w  == SpaceSpan(Drop(s, 3))
            sl == IF 3 + w + 1 <= Len(s) /\ s[3 + w + 1] = 47 THEN 1 ELSE 0
            e  == 3 + w + sl + 1
        IN  IF e <= Len(s) /\ s[e] = 62 THEN e ELSE 0
    ELSE IF StartsWithCI(s, <<60, 47, 112, 62>>) THEN 4
    ELSE 0

\* re.sub(r"(?is)<br\s*/?>|</p>", "\n", s)
RECURSIVE BreaksToNewlines(_)
BreaksToNewlines(s) ==
    IF s = <<>> THEN <<>>
    ELSE
        LET m == BreakLen(s)
        IN  IF m > 0 THEN <<10>> \o BreaksToNewlines(Drop(s, m))
            ELSE <<s[1]>> \o BreaksToNewlines(Tail(s))

\* re.sub(r"(?is)<.*?>", "", s)
RECURSIVE StripTags(_)
StripTags(s) ==
    IF s = <<>> THEN <<>>
    ELSE
        LET gt == IndexOf(Tail(s), 62)
        IN  IF s[1] = 60 /\ gt > 0 THEN StripTags(Drop(s, gt + 1))
            ELSE <<s[1]>> \o StripTags(Tail(s))

\* index of the last "\n" among the first n characters of s, 0 when none
LastNewline(s, n) ==
    IF \E j \in 1..n : s[j] = 10
    THEN CHOOSE j \in 1..n : s[j] = 10 /\ \A k \in (j + 1)..n : s[k] # 10
    ELSE 0

\* re.sub(r"\s+\n", "\n", s): a whitespace run is cut back to its last "\n"
RECURSIVE SqueezeBeforeNewline(_)
SqueezeBeforeNewline(s) ==
    IF s = <<>> THEN <<>>
    ELSE
        LET k == LastNewline(s, SpaceSpan(s))
        IN  IF k >= 2 THEN <<10>> \o SqueezeBeforeNewline(Drop(s, k))
            ELSE <<s[1]>> \o SqueezeBeforeNewline(Tail(s))

\* EmailDataset._html2txt
Html2Txt(s) ==
    Strip(SqueezeBeforeNewline(StripTags(BreaksToNewlines(RemoveBlocks(s)))))

\* index of the first part of ps satisfying the predicate on content type
FirstOfType(ps, ct) ==
    IF \E j \in 1..Len(ps) : ps[j].ctype = ct
    THEN CHOOSE j \in 1..Len(ps) :
            ps[j].ctype = ct /\ \A k \in 1..(j - 1) : ps[k].ctype # ct
    ELSE 0

\* mutant: the text/html scan runs before the text/plain scan
GetBodyHtmlFirst(m) ==
    LET ps == m.parts
        ip == FirstOfType(ps, "text/plain")
        ih == FirstOfType(ps, "text/html")
    IN  IF m.multipart THEN
            IF ih > 0 THEN [body |-> Html2Txt(Txt(ps[ih])), src |-> {ih}]
            ELSE IF ip > 0 THEN [body |-> Txt(ps[ip]), src |-> {ip}]
            ELSE [body |-> <<>>, src |-> {}]
        ELSE
            IF ps[1].ctype = "text/plain"
            THEN [body |-> Txt(ps[1]), src |-> {1}]
            ELSE IF ps[1].ctype = "text/html"
            THEN [body |-> Html2Txt(Txt(ps[1])), src |-> {1}]
            ELSE [body |-> <<>>, src |-> {}]

\* EmailDataset._get_body: the body and src, the indices of the parts it
\* was taken from
GetBody(m) ==
    LET ps == m.parts
        ip == FirstOfType(ps, "text/plain")
        ih == FirstOfType(ps, "text/html")
    IN  IF m.multipart THEN
            IF ip > 0 THEN [body |-> Txt(ps[ip]), src |-> {ip}]
            ELSE IF ih > 0 THEN [body |-> Html2Txt(Txt(ps[ih])), src |-> {ih}]
            ELSE [body |-> <<>>, src |-> {}]
        ELSE
            IF ps[1].ctype = "text/plain"
            THEN [body |-> Txt(ps[1]), src |-> {1}]
            ELSE IF ps[1].ctype = "text/html"
            THEN [body |-> Html2Txt(Txt(ps[1])), src |-> {1}]
            ELSE [body |-> <<>>, src |-> {}]

\* "\n".join(ss)
RECURSIVE JoinLines(_)
JoinLines(ss) ==
    IF ss = <<>> THEN <<>>
    ELSE IF Len(ss) = 1 THEN ss[1]
    ELSE ss[1] \o <<10>> \o JoinLines(Tail(ss))

\* ctype.startswith("text/")
IsTextType(ct) == ct \in {"text/plain", "text/html", "text/csv"}

\* what the text/plain pass of extract_text_from_email appends for a part:
\* get_content(), or the payload decoded as UTF-8 when get_content() raises
PlainPassText(part) ==
    IF GetContentRaises(part) THEN DecodeUtf8(part.payload) ELSE GetContent(part)

\* the parts kept by the text/plain pass: not an attachment, text/plain,
\* non-empty text
PlainPassKept(ps) ==
    { j \in 1..Len(ps) : /\ ps[j].disp # "attachment"
                         /\ ps[j].ctype = "text/plain"
                         /\ PlainPassText(ps[j]) # <<>> }

RECURSIVE PlainPassTexts(_, _)
PlainPassTexts(ps, j) ==
    IF j > Len(ps) THEN <<>>
    ELSE IF j \in PlainPassKept(ps)
    THEN <<PlainPassText(ps[j])>> \o PlainPassTexts(ps, j + 1)
    ELSE PlainPassTexts(ps, j + 1)

\* the part the fallback loop stops at: the first text/* part whose
\* get_content() does not raise and is non-empty once stripped
FallbackHit(ps, j) ==
    /\ IsTextType(ps[j].ctype)
    /\ ~GetContentRaises(ps[j])
    /\ Strip(GetContent(ps[j])) # <<>>

FallbackPart(ps) ==
    IF \E j \in 1..Len(ps) : FallbackHit(ps, j)
    THEN CHOOSE j \in 1..Len(ps) :
            FallbackHit(ps, j) /\ \A k \in 1..(j - 1) : ~FallbackHit(ps, k)
    ELSE 0

\* extract_text_from_email: the body and the parts it was taken from
ExtractText(m) ==
    LET ps    == m.parts
        plain == Strip(JoinLines(PlainPassTexts(ps, 1)))
        fb    == FallbackPart(ps)
    IN  IF m.multipart THEN
            IF plain # <<>> THEN [body |-> plain, src |-> PlainPassKept(ps)]
            ELSE IF fb > 0
            THEN [body |-> Strip(GetContent(ps[fb])), src |-> {fb}]
            ELSE [body |-> <<>>, src |-> {}]
        ELSE
            IF GetContentRaises(ps[1])
            THEN [body |-> Strip(DecodeUtf8(ps[1].payload)), src |-> {1}]
            ELSE [body |-> Strip(GetContent(ps[1])), src |-> {1}]

\* ---- inputs of the parser ----
MaxParts == 2

\* "", " \n", "P", the byte 0xE9
PlainPayloads == { <<>>, <<32, 10>>, <<80>>, <<233>> }

\* "", "<p>H <b>i</b></p>", "<style>x</style> <BR />\nZ"
HtmlPayloads ==
    { <<>>,
      <<60, 112, 62, 72, 32, 60, 98, 62, 105, 60, 47, 98, 62, 60, 47, 112, 62>>,
      <<60, 115, 116, 121, 108, 101, 62, 120, 60, 47, 115, 116, 121, 108, 101, 62, 32, 60, 66, 82, 32, 47, 62, 10, 90>> }

Part(ct, d, cs, b) == [ctype |-> ct, disp |-> d, charset |-> cs, payload |-> b]

PartKinds ==
    { Part("text/plain", d, "none", b) : d \in {"none", "attachment"},
                                         b \in PlainPayloads }
    \cup { Part("text/plain", d, "bogus", <<80>>) : d \in {"none", "attachment"} }
    \cup { Part("text/plain", "none", "latin-1", <<233>>) }
    \cup { Part("text/html", d, "none", b) : d \in {"none", "attachment"},
                                            b \in HtmlPayloads }
    \cup { Part("text/html", "none", "bogus", <<60, 112, 62, 72, 32, 60, 98, 62, 105, 60, 47, 98, 62, 60, 47, 112, 62>>) }
    \cup { Part("text/csv", "none", "none", <<65>>),
           Part("image/png", "none", "none", <<65>>),
           Part("image/png", "attachment", "none", <<65>>) }

RECURSIVE PartSeqs(_)
PartSeqs(n) ==
    IF n = 0 THEN { <<>> }
    ELSE PartSeqs(n - 1)
         \cup { ps \o <<k>> : ps \in PartSeqs(n - 1), k \in PartKinds }

\* a parsed multipart message has at least one part
Messages ==
    { [multipart |-> TRUE, parts |-> ps] : ps \in PartSeqs(MaxParts) \ { <<>> } }
    \cup { [multipart |-> FALSE, parts |-> <<k>>] : k \in PartKinds }

NoResult == [done |-> FALSE, body |-> <<>>, src |-> {}]

BodyInit ==
    /\ msg \in Messages
    /\ resA = NoResult
    /\ resB = NoResult

\* EmailDataset._get_body(msg)
GetBodyCall ==
    /\ ~resA.done
    /\ LET r == GetBody(msg)
       IN  resA' = [done |-> TRUE, body |-> r.body, src |-> r.src]
    /\ UNCHANGED <<msg, resB, nvars, lvars, fvars>>

\* extract_text_from_email(raw) on the same message
ExtractTextCall ==
    /\ ~resB.done
    /\ LET r == ExtractText(msg)
       IN  resB' = [done |-> TRUE, body |-> r.body, src |-> r.src]
    /\ UNCHANGED <<msg, resA, nvars, lvars, fvars>>

----------------------------------------------------------------------------
(* Corpus Loader: EmailDataset.load *)

\* ", "
CommaSpace == <<44, 32>>

\* [a for a in addrs if a]
RECURSIVE NonEmptyOnes(_)
NonEmptyOnes(ss) ==
    IF ss = <<>> THEN <<>>
    ELSE IF ss[1] # <<>> THEN <<ss[1]>> \o NonEmptyOnes(Tail(ss))
    ELSE NonEmptyOnes(Tail(ss))

\* ", ".join(ss)
RECURSIVE JoinCommaSpace(_)
JoinCommaSpace(ss) ==
    IF ss = <<>> THEN <<>>
    ELSE IF Len(ss) = 1 THEN ss[1]
    ELSE ss[1] \o CommaSpace \o JoinCommaSpace(Tail(ss))

\* first index at which ", " occurs in s, 0 when absent
FindCommaSpace(s) ==
    LET Hit(j) == j + 1 <= Len(s) /\ s[j] = 44 /\ s[j + 1] = 32
    IN  IF \E j \in 1..Len(s) : Hit(j)
        THEN CHOOSE j \in 1..Len(s) : Hit(j) /\ \A k \in 1..(j - 1) : ~Hit(k)
        ELSE 0

\* x.split(", ")
RECURSIVE SplitCommaSpace(_)
SplitCommaSpace(s) ==
    LET j == FindCommaSpace(s)
    IN  IF j = 0 THEN <<s>>
        ELSE <<SubSeq(s, 1, j - 1)>> \o SplitCommaSpace(Drop(s, j + 1))

RECURSIVE StripAll(_)
StripAll(ss) ==
    IF ss = <<>> THEN <<>> ELSE <<Strip(ss[1])>> \o StripAll(Tail(ss))

\* EmailFeatureClass.__call__, the num_cc it derives from a cc cell:
\* len([a.strip() for a in x.split(", ") if a.strip()])
NumCcFromCc(x) == Len(NonEmptyOnes(StripAll(SplitCommaSpace(x))))

\* A directory entry, as load meets it:
\*   isFile     e.is_file()
\*   readOk     open, read and parsebytes return (no exception)
\*   hdrRaises  fetching Subject / From / To / Received / Cc raises under
\*              policy.default (e.g. the file "From: <")
\*   subject, sender, recipient  the header values, "" when absent
\*   ccAddrs    the address of each pair getaddresses(cc_hdrs) returns
\*   hops       the number of Received headers
\*   bodyRaises _get_body raises
\*   msg        the parsed message, for _get_body
Entry(isf, rok, hr, subj, snd, cc, hops, br, m) ==
    [isFile |-> isf, readOk |-> rok, hdrRaises |-> hr, subject |-> subj,
     sender |-> snd, recipient |-> <<>>, ccAddrs |-> cc, hops |-> hops,
     bodyRaises |-> br, msg |-> m]

SinglePart(ct, b) ==
    [multipart |-> FALSE, parts |-> <<Part(ct, "none", "none", b)>>]

MultiPart(ps) == [multipart |-> TRUE, parts |-> ps]

\* "Hi", "a@b", the address "a, b"@x, "c@d", "<p>H <b>i</b></p>"
EntryKinds ==
    { \* a sub-directory
      Entry(FALSE, TRUE, FALSE, <<>>, <<>>, <<>>, 0, FALSE, SinglePart("text/plain", <<>>)),
      \* an unreadable or unparsable file
      Entry(TRUE, FALSE, FALSE, <<>>, <<>>, <<>>, 0, FALSE, SinglePart("text/plain", <<>>)),
      \* a file with a header whose parsing raises
      Entry(TRUE, TRUE, TRUE, <<>>, <<>>, <<>>, 0, FALSE, SinglePart("text/plain", <<80>>)),
      \* a file whose body extraction raises
      Entry(TRUE, TRUE, FALSE, <<72, 105>>, <<>>, <<>>, 1, TRUE, SinglePart("text/plain", <<80>>)),
      \* an empty file
      Entry(TRUE, TRUE, FALSE, <<>>, <<>>, <<>>, 0, FALSE, SinglePart("text/plain", <<>>)),
      \* no Subject, no From, an image only: nothing to emit
      Entry(TRUE, TRUE, FALSE, <<>>, <<>>, <<<<99, 64, 100>>>>, 2, FALSE,
            MultiPart(<<Part("image/png", "attachment", "none", <<65>>)>>)),
      \* Subject and a plain body
      Entry(TRUE, TRUE, FALSE, <<72, 105>>, <<>>, <<>>, 0, FALSE, SinglePart("text/plain", <<80>>)),
      \* From only
      Entry(TRUE, TRUE, FALSE, <<>>, <<97, 64, 98>>, <<>>, 1, FALSE, SinglePart("image/png", <<65>>)),
      \* an <<60, 112, 62, 72, 32, 60, 98, 62, 105, 60, 47, 98, 62, 60, 47, 112, 62>>-only multipart body and nothing else
      Entry(TRUE, TRUE, FALSE, <<>>, <<>>, <<>>, 0, FALSE,
            MultiPart(<<Part("text/html", "none", "none", <<60, 112, 62, 72, 32, 60, 98, 62, 105, 60, 47, 98, 62, 60, 47, 112, 62>>)>>)),
      \* Cc: c@d, <>
      Entry(TRUE, TRUE, FALSE, <<72, 105>>, <<97, 64, 98>>, <<<<99, 64, 100>>, <<>> >>, 1, FALSE, SinglePart("text/plain", <<80>>)),
      \* Cc: "a, b"@x, c@d
      Entry(TRUE, TRUE, FALSE, <<72, 105>>, <<97, 64, 98>>, <<<<34, 97, 44, 32, 98, 34, 64, 120>>, <<99, 64, 100>>>>, 1, FALSE, SinglePart("text/plain", <<80>>)) }

MaxFiles == 3

RECURSIVE Dirs(_)
Dirs(n) ==
    IF n = 0 THEN { <<>> }
    ELSE Dirs(n - 1) \cup { d \o <<e>> : d \in Dirs(n - 1), e \in EntryKinds }

LoadInit ==
    /\ dir \in Dirs(MaxFiles)
    /\ label \in {"spam", "ham"}
    /\ pos = 1
    /\ rows = <<>>
    /\ skipped = 0
    /\ lpc = "scan"

AtEntry == lpc = "scan" /\ pos <= Len(dir)

\* the row load builds for entry f at index j
Row(f, j) ==
    [file |-> j, sender |-> f.sender, recipient |-> f.recipient,
     cc |-> JoinCommaSpace(NonEmptyOnes(f.ccAddrs)),
     num_cc |-> Len(NonEmptyOnes(f.ccAddrs)),
     subject |-> f.subject, content |-> GetBody(f.msg).body,
     num_hops |-> f.hops, label |-> label]

\* mutant: the test reads cc_txt where it should read sender
AllEmptyChecksCc(f) ==
    f.subject = <<>> /\ GetBody(f.msg).body = <<>> /\ NonEmptyOnes(f.ccAddrs) = <<>>

\* if not (subj or content or sender)
AllEmpty(f) ==
    f.subject = <<>> /\ GetBody(f.msg).body = <<>> /\ f.sender = <<>>

\* if not e.is_file(): continue
ScanNotFile ==
    /\ AtEntry
    /\ ~dir[pos].isFile
    /\ pos' = pos + 1
    /\ UNCHANGED <<dir, label, rows, skipped, lpc, nvars, bvars, fvars>>

\* open / read / parsebytes raises: skipped += 1; continue
ScanReadFails ==
    /\ AtEntry
    /\ dir[pos].isFile /\ ~dir[pos].readOk
    /\ skipped' = skipped + 1
    /\ pos' = pos + 1
    /\ UNCHANGED <<dir, label, rows, lpc, nvars, bvars, fvars>>

\* the header and Cc extraction (lines 65-73) is outside both try blocks: an
\* exception there leaves load
ScanHeaderRaises ==
    /\ AtEntry
    /\ dir[pos].isFile /\ dir[pos].readOk /\ dir[pos].hdrRaises
    /\ lpc' = "raised"
    /\ UNCHANGED <<dir, label, pos, rows, skipped, nvars, bvars, fvars>>

\* _get_body raises: skipped += 1; continue
ScanBodyRaises ==
    /\ AtEntry
    /\ dir[pos].isFile /\ dir[pos].readOk /\ ~dir[pos].hdrRaises
    /\ dir[pos].bodyRaises
    /\ skipped' = skipped + 1
    /\ pos' = pos + 1
    /\ UNCHANGED <<dir, label, rows, lpc, nvars, bvars, fvars>>

\* mutant: the all-empty branch continues without counting the skip
ScanAllEmptyNoCount ==
    /\ AtEntry
    /\ dir[pos].isFile /\ dir[pos].readOk /\ ~dir[pos].hdrRaises
    /\ ~dir[pos].bodyRaises
    /\ AllEmpty(dir[pos])
    /\ pos' = pos + 1
    /\ UNCHANGED <<dir, label, rows, skipped, lpc, nvars, bvars, fvars>>

\* subject, content and sender all empty: skipped += 1; continue
ScanAllEmpty ==
    /\ AtEntry
    /\ dir[pos].isFile /\ dir[pos].readOk /\ ~dir[pos].hdrRaises
    /\ ~dir[pos].bodyRaises
    /\ AllEmpty(dir[pos])
    /\ skipped' = skipped + 1
    /\ pos' = pos + 1
    /\ UNCHANGED <<dir, label, rows, lpc, nvars, bvars, fvars>>

\* rows.append(row)
ScanEmit ==
    /\ AtEntry
    /\ dir[pos].isFile /\ dir[pos].readOk /\ ~dir[pos].hdrRaises
    /\ ~dir[pos].bodyRaises
    /\ ~AllEmpty(dir[pos])
    /\ rows' = Append(rows, Row(dir[pos], pos))
    /\ pos' = pos + 1
    /\ UNCHANGED <<dir, label, skipped, lpc, nvars, bvars, fvars>>

\* the directory is exhausted: return pd.DataFrame(rows)
LoadReturn ==
    /\ lpc = "scan" /\ pos > Len(dir)
    /\ lpc' = "done"
    /\ UNCHANGED <<dir, label, pos, rows, skipped, nvars, bvars, fvars>>

----------------------------------------------------------------------------
(* Feature Engine (EmailFeatureClass.__call__) and Dataset Assembler        *)
(* (build_processed.main, from the table load_data returned onwards)        *)

\* EmailFeatureClass.cols
FeatureCols == <<"num_cc", "num_hops", "subject_len", "content_len", "has_link">>

\* keep, in build_processed.main
Keep ==
    <<"sender", "recipient", "num_cc", "subject", "content", "subject_len",
      "content_len", "has_link", "num_hops", "label">>

\* the columns of pd.DataFrame(rows) for the rows load builds; a frame built
\* from no rows has no columns
LoaderCols ==
    {"file", "sender", "recipient", "cc", "num_cc", "subject", "content",
     "num_hops", "label"}

FrameCols(rs) == IF rs = <<>> THEN {} ELSE LoaderCols

AllCols == LoaderCols \cup {"subject_len", "content_len", "has_link"}

\* [c for c in names if c not in df.columns]
Missing(names, cs) == SelectSeq(names, LAMBDA c : c \notin cs)

NoError == [kind |-> "none", names |-> <<>>]

\* EmailFeatureClass.__call__ on a table with columns cs: the columns of
\* the table returned, or the exception raised
FeatureCall(cs) ==
    LET c1 == IF "subject_len" \notin cs /\ "subject" \in cs
              THEN cs \cup {"subject_len"} ELSE cs
        c2 == IF "content_len" \notin c1 /\ "content" \in c1
              THEN c1 \cup {"content_len"} ELSE c1
        c3 == c2 \cup {"has_link"}
        c4 == IF "num_cc" \notin c3 /\ "cc" \in c3
              THEN c3 \cup {"num_cc"} ELSE c3
    IN  IF "has_link" \notin c2 /\ "subject" \notin c2
        THEN [cols |-> cs, err |-> [kind |-> "KeyError", names |-> <<"subject">>]]
        ELSE IF "has_link" \notin c2 /\ "content" \notin c2
        THEN [cols |-> cs, err |-> [kind |-> "KeyError", names |-> <<"content">>]]
        ELSE IF Missing(FeatureCols, c4) # <<>>
        THEN [cols |-> cs,
              err |-> [kind |-> "ValueError", names |-> Missing(FeatureCols, c4)]]
        ELSE [cols |-> c4, err |-> NoError]

FeatInit ==
    /\ cols0 \in SUBSET AllCols
    /\ cols = cols0
    /\ fpc = "start"
    /\ ferr = NoError
    /\ out0 \in {"absent", "old"}
    /\ out = out0

\* features_df = EmailFeatureClass()(df) returns
MainFeatures ==
    /\ fpc = "start"
    /\ FeatureCall(cols).err = NoError
    /\ cols' = FeatureCall(cols).cols
    /\ fpc' = "featured"
    /\ UNCHANGED <<cols0, ferr, out0, out, nvars, bvars, lvars>>

\* features_df = EmailFeatureClass()(df) raises
MainFeaturesRaises ==
    /\ fpc = "start"
    /\ FeatureCall(cols).err # NoError
    /\ ferr' = FeatureCall(cols).err
    /\ fpc' = "failed"
    /\ UNCHANGED <<cols0, cols, out0, out, nvars, bvars, lvars>>

\* a column of keep is missing: raise ValueError
MainKeepRaises ==
    /\ fpc = "featured"
    /\ Missing(Keep, cols) # <<>>
    /\ ferr' = [kind |-> "ValueError", names |-> Missing(Keep, cols)]
    /\ fpc' = "failed"
    /\ UNCHANGED <<cols0, cols, out0, out, nvars, bvars, lvars>>

\* mkdir, features_df[keep], raw_df.to_csv(out_path)
MainWrite ==
    /\ fpc = "featured"
    /\ Missing(Keep, cols) = <<>>
    /\ cols' = { Keep[j] : j \in 1..Len(Keep) }
    /\ out' = "new"
    /\ fpc' = "written"
    /\ UNCHANGED <<cols0, ferr, out0, nvars, bvars, lvars>>

----------------------------------------------------------------------------
(* The specifications *)

NormIdle ==
    /\ cfg = Off /\ env = "ok" /\ nlp = "None"
    /\ nIn = <<>> /\ nHist = <<>> /\ nErr = "none"

BodyIdle ==
    /\ msg = SinglePart("text/plain", <<>>)
    /\ resA = NoResult /\ resB = NoResult

LoadIdle ==
    /\ dir = <<>> /\ label = "spam" /\ pos = 1
    /\ rows = <<>> /\ skipped = 0 /\ lpc = "scan"

FeatIdle ==
    /\ cols0 = {} /\ cols = {} /\ fpc = "start"
    /\ ferr = NoError /\ out0 = "absent" /\ out = "absent"

\* the Text Normalizer applied to a string, and again to its result
NormNext == NormCall

NormStart == NormInit /\ BodyIdle /\ LoadIdle /\ FeatIdle

SpecNorm == NormStart /\ [][NormNext]_vars

\* the two body selections applied to one message
BodyNext == GetBodyCall \/ ExtractTextCall

BodyStart == BodyInit /\ NormIdle /\ LoadIdle /\ FeatIdle

SpecBody == BodyStart /\ [][BodyNext]_vars

\* EmailDataset.load over one directory
LoadNext ==
    \/ ScanNotFile
    \/ ScanReadFails
    \/ ScanHeaderRaises
    \/ ScanBodyRaises
    \/ ScanAllEmpty
    \/ ScanEmit
    \/ LoadReturn

LoadStart == LoadInit /\ NormIdle /\ BodyIdle /\ FeatIdle

SpecLoad == LoadStart /\ [][LoadNext]_vars

\* build_processed.main from the loaded table to the output file
FeatNext ==
    \/ MainFeatures
    \/ MainFeaturesRaises
    \/ MainKeepRaises
    \/ MainWrite

FeatStart == FeatInit /\ NormIdle /\ BodyIdle /\ LoadIdle

SpecFeat == FeatStart /\ [][FeatNext]_vars

----------------------------------------------------------------------------
(* Properties of the Corpus Loader *)

\* the regular files among the first n entries
FilesAmong(n) == { j \in 1..n : j <= Len(dir) /\ dir[j].isFile }

\* handling entry f raises at some stage: read or parse, header and Cc
\* extraction, or body extraction
Raises(f) == ~f.readOk \/ f.hdrRaises \/ f.bodyRaises

\* C1: when load finishes, the number of records plus the skip counter
\* equals the number of regular files scanned; all along the scan, every
\* regular file passed is counted once, as a record or as a skip.
C1_RecordsPlusSkips ==
    /\ Len(rows) + skipped = Cardinality(FilesAmong(pos - 1))
    /\ \A k, l \in 1..Len(rows) : rows[k].file = rows[l].file => k = l
    /\ lpc = "done" => Len(rows) + skipped = Cardinality(FilesAmong(Len(dir)))

C1_Witness ==
    /\ lpc = "done"
    /\ Len(rows) >= 1
    /\ \E j \in 1..Len(dir) : dir[j].isFile /\ ~dir[j].readOk
    /\ \E j \in 1..Len(dir) : dir[j].isFile /\ dir[j].readOk /\ AllEmpty(dir[j])

\* C2: an exception at any stage of handling one file adds exactly one to
\* the skip counter, emits no record, and the loop goes on to the next
\* file; no file makes load raise.
C2_ExceptionSkipsOneFile ==
    [][(AtEntry /\ dir[pos].isFile /\ Raises(dir[pos]))
         => (skipped' = skipped + 1 /\ rows' = rows /\ pos' = pos + 1
             /\ lpc' = "scan")]_vars

\* C5: every emitted record has a non-empty subject, content or sender, and
\* a file in which all three are empty has no record.
C5_RecordsNotAllEmpty ==
    /\ \A k \in 1..Len(rows) :
          rows[k].subject # <<>> \/ rows[k].content # <<>> \/ rows[k].sender # <<>>
    /\ \A j \in 1..(pos - 1) :
          (dir[j].subject = <<>> /\ dir[j].sender = <<>>
             /\ GetBody(dir[j].msg).body = <<>>)
          => \A k \in 1..Len(rows) : rows[k].file # j

C5_Witness ==
    /\ \E k \in 1..Len(rows) :
          rows[k].subject = <<>> /\ rows[k].content = <<>> /\ rows[k].sender # <<>>
    /\ \E j \in 1..(pos - 1) :
          /\ dir[j].isFile /\ dir[j].readOk /\ ~Raises(dir[j])
          /\ dir[j].subject = <<>> /\ dir[j].sender = <<>>
          /\ GetBody(dir[j].msg).body = <<>>
          /\ dir[j].ccAddrs # <<>>

\* C6: for every emitted record, num_cc equals the number of non-empty
\* entries the Feature Engine gets by splitting the record's cc on ", ".
C6_NumCcRoundTrip ==
    \A k \in 1..Len(rows) : rows[k].num_cc = NumCcFromCc(rows[k].cc)

----------------------------------------------------------------------------
(* Properties of the Message Parser *)

PartsOfType(m, ct) == { j \in 1..Len(m.parts) : m.parts[j].ctype = ct }

\* a multipart message with a text/plain part and a text/html part
PlainAndHtml(m) ==
    /\ m.multipart
    /\ PartsOfType(m, "text/plain") # {}
    /\ PartsOfType(m, "text/html") # {}

\* some text/plain part that is not an attachment has text left after
\* trimming
UsablePlain(m) ==
    \E j \in PartsOfType(m, "text/plain") :
        /\ m.parts[j].disp # "attachment"
        /\ \E i \in 1..Len(m.parts[j].payload) : ~IsSpace(m.parts[j].payload[i])

Results == {resA, resB}

\* C3 as stated: whenever both a text/plain and a text/html part are
\* present, the selected body is taken from text/plain and never from HTML.
C3_Original ==
    PlainAndHtml(msg) =>
        \A r \in Results : r.done =>
            \A j \in r.src : msg.parts[j].ctype = "text/plain"

\* C3 amended: whenever both are present and some text/plain part that is
\* not an attachment is non-empty after trimming, both body selections take
\* the body from text/plain parts only, and it is not empty.
C3_PlainPreferred ==
    (PlainAndHtml(msg) /\ UsablePlain(msg)) =>
        /\ \A r \in Results : r.done =>
              /\ r.src # {}
              /\ r.src \subseteq PartsOfType(msg, "text/plain")
        /\ resA.done => \E j \in resA.src : resA.body = Txt(msg.parts[j])
        /\ resB.done => resB.body # <<>>

C3_Witness ==
    /\ PlainAndHtml(msg) /\ UsablePlain(msg)
    /\ resA.done /\ resB.done
    /\ msg.parts[1].ctype = "text/html"
    /\ Html2Txt(Txt(msg.parts[1])) # <<>>
    /\ resA.body # Html2Txt(Txt(msg.parts[1]))

\* C4: in a multipart message the body never comes from a part whose
\* content disposition is attachment, in either pass.
C4_NoAttachmentBody ==
    msg.multipart =>
        \A r \in Results : \A j \in r.src : msg.parts[j].disp # "attachment"

\* C10: in a multipart message with a text/html part whose text/plain
\* parts are absent or empty after trimming, the body is the first HTML
\* part with its markup stripped.
C10_HtmlFallback ==
    ( /\ msg.multipart
      /\ PartsOfType(msg, "text/html") # {}
      /\ \A j \in PartsOfType(msg, "text/plain") :
            \A i \in 1..Len(msg.parts[j].payload) : IsSpace(msg.parts[j].payload[i]) )
    => LET h == msg.parts[FirstOfType(msg.parts, "text/html")]
       IN  \A r \in Results : r.done =>
              r.body \in {Html2Txt(Txt(h)), Html2Txt(GetContent(h))}

----------------------------------------------------------------------------
(* Properties of the Feature Engine and the Dataset Assembler *)

Range(q) == { q[j] : j \in 1..Len(q) }

Derived == {"has_link", "subject_len", "content_len"}

\* C8: a table without subject or without content, and carrying none of
\* has_link / subject_len / content_len, makes the Feature Engine fail with
\* its "Missing expected columns" error, which lists the derived columns
\* that could not be computed.
C8_SchemaErrorOnMissingText ==
    ( /\ fpc # "start"
      /\ "subject" \notin cols0 \/ "content" \notin cols0
      /\ cols0 \cap Derived = {} )
    => /\ fpc = "failed"
       /\ ferr.kind = "ValueError"
       /\ "has_link" \in Range(ferr.names)

\* C9: a table without num_hops makes the run fail with the "Missing
\* expected columns" error naming num_hops, and the output file is left as
\* it was.
C9_MissingHopsNoOutput ==
    ("num_hops" \notin cols0 /\ fpc # "start")
    => /\ fpc = "failed"
       /\ ferr.kind = "ValueError"
       /\ "num_hops" \in Range(ferr.names)
       /\ out = out0

----------------------------------------------------------------------------
(* Properties of the Text Normalizer *)

OnlyCollapse ==
    cfg = [Off EXCEPT !.enable = TRUE, !.collapse_whitespace = TRUE]

\* the maximal runs of non-whitespace characters of s, in order
RECURSIVE Words(_)
Words(s) ==
    LET t == LStrip(s)
    IN  IF t = <<>> THEN <<>>
        ELSE LET n == CHOOSE k \in 1..Len(t) :
                        /\ \A j \in 1..k : ~IsSpace(t[j])
                        /\ (k = Len(t) \/ IsSpace(t[k + 1]))
             IN  <<SubSeq(t, 1, n)>> \o Words(Drop(t, n))

\* every whitespace run of s is one space, and none is at either end
IsCollapsed(s) ==
    /\ \A j \in 1..Len(s) : IsSpace(s[j]) => s[j] = 32
    /\ \A j \in 1..(Len(s) - 1) : ~(s[j] = 32 /\ s[j + 1] = 32)
    /\ s # <<>> => (s[1] # 32 /\ s[Len(s)] # 32)

HasAmp(s) == \E j \in 1..Len(s) : s[j] = 38

CollapsesAndIdempotent ==
    /\ Len(nHist) >= 1 =>
         IsCollapsed(nHist[1]) /\ Words(nHist[1]) = Words(nIn)
    /\ Len(nHist) >= 2 => nHist[2] = nHist[1]

\* C7 as stated: with collapse_whitespace alone, for every input the
\* normalizer collapses the whitespace runs, trims, changes nothing else, and
\* a second application returns the result of the first.
C7_Original == OnlyCollapse => CollapsesAndIdempotent

\* C7 amended: the same, for every input that contains no "&" (the
\* normalizer unescapes character references before anything else).
C7_CollapseIdempotent == (OnlyCollapse /\ ~HasAmp(nIn)) => CollapsesAndIdempotent

C7_Witness ==
    /\ OnlyCollapse
    /\ ~HasAmp(nIn)
    /\ Len(nHist) = 2
    /\ \E j \in 1..(Len(nIn) - 1) : IsSpace(nIn[j]) /\ IsSpace(nIn[j + 1])
    /\ nHist[1] # nIn

\* the text handed to call k: the input, then the previous result
CallInput(k) == IF k = 1 THEN nIn ELSE nHist[k - 1]

\* C11: with lemmatize enabled and the linguistic library or its language
\* model not installed, no call raises, and every call, the first and the
\* later ones, returns the text the preceding steps produced.
C11_LemmatizeAbsentNoOp ==
    (cfg.enable /\ cfg.lemmatize /\ env \in {"no_spacy", "no_model"})
    => /\ nErr = "none"
       /\ \A k \in 1..Len(nHist) : nHist[k] = Clean(cfg, CallInput(k))

====
